---- MODULE Spec2Model ----
(***************************************************************************)
(* Model of the authoritative game server src/server.js.                   *)
(*                                                                         *)
(* Units.  Lengths are pixels; every position the model reaches is an      *)
(* integer because spawn points are integers and the inputs drawn here     *)
(* have integer movement axes.  Obstacle rectangles have edges on fifths   *)
(* of a pixel (TILE_SIZE*0.6 = 19.2), so box overlap is computed in fifths *)
(* of a pixel.  Time is counted in half ticks of 50 ms (clock): the main   *)
(* interval fires on even clock values, and an event that arrives at an    *)
(* odd clock value arrives late in the 100 ms between two main ticks.      *)
(* Cooldowns are the number of main ticks until Math.max(0, cd - dt)       *)
(* yields 0.  The field damage is kept doubled (rogue has damage 2.5).     *)
(***************************************************************************)
EXTENDS Integers, Sequences, FiniteSets, TLC

\* ----- Config (server.js 14-18) -----
TICK_RATE == 10
MAP_TILES == 38
TILE_SIZE == 32
MAP_PX == MAP_TILES * TILE_SIZE
MAX_PLAYERS == 6

\* clock units (half ticks) in one main tick, one projectile tick, one sweep
MAIN_PERIOD == 2
SEC == MAIN_PERIOD * TICK_RATE
PROJ_PERIOD == SEC \div (IF 5 > TICK_RATE \div 2 THEN 5 ELSE TICK_RATE \div 2)
SWEEP_PERIOD == 5 * SEC
\* Date.now() differences, in clock units
IDLE_LIMIT == 30 * SEC
RESPAWN_DELAY == SEC

\* the recharge values 0.8, 4, 6 and 20 s as the number of main ticks after
\* which Math.max(0, cd - 0.1) is 0 in IEEE-754 doubles (0.8 and 6 leave a
\* positive residue after 8 and 60 subtractions)
ATTACK_CD == 9
Q_CD == 40
E_CD == 61
X_CD == 200

\* ----- Helpers (server.js 21-28) -----
Min(a, b) == IF a < b THEN a ELSE b
Max(a, b) == IF a > b THEN a ELSE b
Abs(a) == IF a < 0 THEN -a ELSE a
clamp(v, a, b) == Max(a, Min(b, v))
tileToPx(t) == t * TILE_SIZE

\* a, b: rectangles [x, y, w, h], all in the same unit
rectsOverlap(a, b) ==
  ~(a.x + a.w < b.x \/ a.x > b.x + b.w \/ a.y + a.h < b.y \/ a.y > b.y + b.h)

\* ----- World (server.js 31-41): one layout generateWorld can produce -----
\* ten houses, tile x, y in 2..MAP_TILES-4, w, h in 1..2; the first covers
\* the map centre, the second stands right of the spawn corner
houses ==
  << [x |-> 19, y |-> 19, w |-> 1, h |-> 1],
     [x |-> 4,  y |-> 2,  w |-> 1, h |-> 1],
     [x |-> 30, y |-> 5,  w |-> 2, h |-> 1],
     [x |-> 8,  y |-> 30, w |-> 1, h |-> 2],
     [x |-> 25, y |-> 25, w |-> 2, h |-> 2],
     [x |-> 12, y |-> 14, w |-> 1, h |-> 1],
     [x |-> 33, y |-> 33, w |-> 2, h |-> 2],
     [x |-> 2,  y |-> 20, w |-> 1, h |-> 2],
     [x |-> 19, y |-> 19, w |-> 1, h |-> 1],
     [x |-> 16, y |-> 7,  w |-> 2, h |-> 1] >>

\* the obstacle rectangle of house h, in fifths of a pixel (server.js 68-71
\* and 385-388: x - TILE_SIZE*0.5, y - TILE_SIZE*0.6, w + TILE_SIZE,
\* h + TILE_SIZE*0.6)
HouseRect(h) ==
  [x |-> 5 * tileToPx(h.x) - (5 * TILE_SIZE) \div 2,
   y |-> 5 * tileToPx(h.y) - 3 * TILE_SIZE,
   w |-> 5 * h.w * TILE_SIZE + 5 * TILE_SIZE,
   h |-> 5 * h.h * TILE_SIZE + 3 * TILE_SIZE]

\* the box of an entity at pixel (x, y), in fifths of a pixel
PLAYER_W == 20
PLAYER_H == 28
EntityBox(x, y) == [x |-> 5 * x, y |-> 5 * y, w |-> 5 * PLAYER_W, h |-> 5 * PLAYER_H]

\* the inner loop of findSpawn and of the movement step: some house overlaps
BlockedAt(x, y) ==
  \E i \in 1..Len(houses) : rectsOverlap(EntityBox(x, y), HouseRect(houses[i]))

\* ----- Classes (server.js 44-54); cooldown in tenths of a second, damage doubled -----
ClassNames ==
  {"ninja", "mage", "warrior", "archer", "paladin", "rogue", "cleric", "berserker", "dragon"}

CLASSES ==
  [c \in ClassNames |->
    CASE c = "ninja"     -> [maxHp |-> 3,  cooldown |-> 9,  damage |-> 4]
      [] c = "mage"      -> [maxHp |-> 5,  cooldown |-> 8,  damage |-> 4]
      [] c = "warrior"   -> [maxHp |-> 8,  cooldown |-> 9,  damage |-> 6]
      [] c = "archer"    -> [maxHp |-> 5,  cooldown |-> 8,  damage |-> 4]
      [] c = "paladin"   -> [maxHp |-> 9,  cooldown |-> 12, damage |-> 6]
      [] c = "rogue"     -> [maxHp |-> 4,  cooldown |-> 6,  damage |-> 5]
      [] c = "cleric"    -> [maxHp |-> 6,  cooldown |-> 15, damage |-> 0]
      [] c = "berserker" -> [maxHp |-> 10, cooldown |-> 10, damage |-> 8]
      [] c = "dragon"    -> [maxHp |-> 12, cooldown |-> 15, damage |-> 8]]

\* ----- Spawn helper (server.js 61-77) -----
SPAWN_TRIES == 100
SPAWN_MARGIN == 60
MapCentre == [x |-> MAP_PX \div 2, y |-> MAP_PX \div 2]

\* the points Math.floor(Math.random()*(MAP_PX-120))+60 can yield
SpawnRange == SPAWN_MARGIN .. (MAP_PX - 2 * SPAWN_MARGIN - 1 + SPAWN_MARGIN)

\* a run of the random generator: the first k draws are the point b, the
\* others the point p
DrawSeq(k, b, p) == [k |-> k, b |-> b, p |-> p]
DrawAt(draw, i) == IF i < draw.k THEN draw.b ELSE draw.p

\* a spawn helper that takes its first draw without the overlap test
findSpawnUnchecked(draw) == DrawAt(draw, 0)

\* a spawn helper that gives up after two samples
findSpawnShort(draw) ==
  IF ~BlockedAt(DrawAt(draw, 0).x, DrawAt(draw, 0).y) THEN DrawAt(draw, 0)
  ELSE IF ~BlockedAt(DrawAt(draw, 1).x, DrawAt(draw, 1).y) THEN DrawAt(draw, 1)
  ELSE MapCentre

\* the first draw, among SPAWN_TRIES, that no house overlaps, else the centre
findSpawn(draw) ==
  LET bBlocked == BlockedAt(draw.b.x, draw.b.y)
      pBlocked == BlockedAt(draw.p.x, draw.p.y)
      ok == {i \in 0..(SPAWN_TRIES - 1) : ~(IF i < draw.k THEN bBlocked ELSE pBlocked)}
  IN IF ok = {} THEN MapCentre
     ELSE DrawAt(draw, CHOOSE i \in ok : \A j \in ok : i <= j)

\* ----- Server state (server.js 57-58, 79-93) -----
\* the socket ids: one more than MAX_PLAYERS, so that the server can be full
Sessions == {"s1", "s2", "s3", "s4", "s5", "s6", "s7"}
\* the two sessions of the specifications in which two entities meet
Pair == {"s1", "s2"}
NoPlayer == [id |-> "none"]
NoStatus == [shield |-> 0, speedUntil |-> 0, invisUntil |-> 0, rageUntil |-> 0,
             transformedUntil |-> 0]
BASE_SPEED == 140

VARIABLES
  players,      \* socket id -> player object, or NoPlayer
  order,        \* the keys of players in insertion order (for ... in order)
  projectiles,  \* the projectiles array
  timers,       \* pending setTimeout callbacks, in creation order
  events,       \* the notifications emitted by the last step
  clock,        \* Date.now(), in half ticks
  mainDue,      \* clock value of the next firing of the main interval
  projDue,      \* ... of the projectile interval
  sweepDue,     \* ... of the stale-player interval
  conn,         \* per socket: "new", "open" (handlers registered) or "closed"
  gens,         \* number of player objects created so far
  crashed,      \* an exception escaped a handler: the process has ended
  op,           \* the handler that ran last: [name, s]
  used          \* number of inputs and disconnects handled so far (bounds the model)

vars == << players, order, projectiles, timers, events, clock, mainDue, projDue,
           sweepDue, conn, gens, crashed, op, used >>

\* the whole mutable state as one value, threaded through the handlers
Cur ==
  [pl |-> players, ord |-> order, pr |-> projectiles, tm |-> timers,
   ev |-> << >>, now |-> clock, crashed |-> crashed]

Has(w, id) == id \in Sessions /\ w.pl[id] # NoPlayer

createPlayer(id, clsName, spawn, gen, now) ==
  LET cls == IF clsName \in ClassNames THEN CLASSES[clsName] ELSE CLASSES["warrior"]
  IN [id |-> id,
      classType |-> IF clsName = "" THEN "warrior" ELSE clsName,
      x |-> spawn.x, y |-> spawn.y,
      vx |-> 0, vy |-> 0, speed |-> BASE_SPEED,
      hp |-> cls.maxHp, maxHp |-> cls.maxHp, damage |-> cls.damage,
      cooldown |-> 0, qCD |-> 0, eCD |-> 0, xCD |-> 0,
      xp |-> 0, level |-> 1,
      lastSeen |-> now,
      facing |-> "none",
      status |-> NoStatus,
      gen |-> gen]

Init ==
  /\ players = [s \in Sessions |-> NoPlayer]
  /\ order = << >>
  /\ projectiles = << >>
  /\ timers = << >>
  /\ events = << >>
  /\ clock = 0
  /\ mainDue = MAIN_PERIOD
  /\ projDue = PROJ_PERIOD
  /\ sweepDue = SWEEP_PERIOD
  /\ conn = [s \in Sessions |-> "new"]
  /\ gens = 0
  /\ crashed = FALSE
  /\ op = [name |-> "start", s |-> "none"]
  /\ used = 0

\* ----- Geometry of the target tests -----
Dist2(a, b) == (a.x - b.x) * (a.x - b.x) + (a.y - b.y) * (a.y - b.y)

\* facingToAngle (server.js 28) maps every value but up, down, left to 0
Along(f, dx, dy) ==
  CASE f = "up" -> -dy [] f = "down" -> dy [] f = "left" -> -dx [] OTHER -> dx
Across(f, dx, dy) ==
  CASE f = "up" -> dx [] f = "down" -> dx [] OTHER -> dy

\* Math.abs(((a - ang + Math.PI) % (2*Math.PI)) - Math.PI) compared with the
\* half angle, for a = Math.atan2(dy, dx) (server.js 233-234, 284-285).
\* JavaScript's % keeps the sign of the dividend: for ang = pi (left) and
\* a < 0 (dy < 0) the value is pi - a > pi, never within any half angle; in
\* the other cases it is the angle between (dx, dy) and the facing.
\* cone: "half" is <= pi/2, "third" is <= pi/3, "beam" is < 0.25
\* (tan 0.25 = 0.25534).
InCone(f, dx, dy, cone) ==
  LET al == Along(f, dx, dy)
      ac == Abs(Across(f, dx, dy))
  IN IF dx = 0 /\ dy = 0
       THEN CASE f = "left" -> FALSE
              [] f \in {"up", "down"} -> cone = "half"
              [] OTHER -> TRUE
     ELSE IF f = "left" /\ dy < 0 THEN FALSE
     ELSE CASE cone = "half"  -> al >= 0
            [] cone = "third" -> al >= 0 /\ ac * ac <= 3 * al * al
            [] cone = "beam"  -> al > 0 /\ ac * 100000 < 25534 * al
            [] OTHER -> TRUE

\* ----- State threading -----
SetP(w, id, rec) == [w EXCEPT !.pl[id] = rec]
Emit(w, e) == [w EXCEPT !.ev = Append(@, e)]
AddTimer(w, kind, id, delay) ==
  [w EXCEPT !.tm = Append(@, [kind |-> kind, id |-> id, gen |-> w.pl[id].gen,
                              due |-> w.now + delay])]

\* ----- applyDamage (server.js 188-213) -----
XP_REWARD == 10
XP_PER_LEVEL == 20
MAXHP_CAP == 50

\* a reward whose level rises only with every third kill
LevelUpSlow(k) ==
  LET xp == k.xp + XP_REWARD
      lvl == (xp \div (XP_PER_LEVEL + XP_REWARD)) + 1
      mh == IF lvl > k.level THEN Min(MAXHP_CAP, k.maxHp + 1) ELSE k.maxHp
  IN [k EXCEPT !.xp = xp, !.level = lvl, !.maxHp = mh,
               !.hp = IF lvl > k.level THEN Min(mh, k.hp + 2) ELSE k.hp]

LevelUp(k) ==
  LET xp == k.xp + XP_REWARD
      lvl == (xp \div XP_PER_LEVEL) + 1
      mh == IF lvl > k.level THEN Min(MAXHP_CAP, k.maxHp + 1) ELSE k.maxHp
  IN [k EXCEPT !.xp = xp, !.level = lvl, !.maxHp = mh,
               !.hp = IF lvl > k.level THEN Min(mh, k.hp + 2) ELSE k.hp]

\* a damage step that rewards the source on every hit
applyDamageRewarding(w, tid, dmg, fromId) ==
  LET w1 == Emit(SetP(w, tid, [w.pl[tid] EXCEPT !.hp = @ - dmg]),
                 [type |-> "hit", to |-> tid, dmg |-> dmg, from |-> fromId])
      w2 == IF Has(w1, fromId) THEN SetP(w1, fromId, LevelUp(w1.pl[fromId])) ELSE w1
  IN IF w1.pl[tid].hp <= 0
       THEN AddTimer(Emit(w2, [type |-> "died", to |-> tid, by |-> fromId]),
                     "respawn", tid, RESPAWN_DELAY)
       ELSE Emit(w2, [type |-> "playerHitFlash", to |-> "all", id |-> tid])

applyDamage(w, tid, dmg, fromId) ==
  LET w1 == Emit(SetP(w, tid, [w.pl[tid] EXCEPT !.hp = @ - dmg]),
                 [type |-> "hit", to |-> tid, dmg |-> dmg, from |-> fromId])
  IN IF w1.pl[tid].hp <= 0
       THEN LET w2 == IF Has(w1, fromId)
                        THEN SetP(w1, fromId, LevelUp(w1.pl[fromId]))
                        ELSE w1
                w3 == Emit(w2, [type |-> "died", to |-> tid, by |-> fromId])
            IN AddTimer(w3, "respawn", tid, RESPAWN_DELAY)
       ELSE Emit(w1, [type |-> "playerHitFlash", to |-> "all", id |-> tid])

\* ----- The loops "for(const id in players)" that damage the others -----
\* d: [radius, strict, cone, dmg]; strict: the test is dist < radius (else the
\* target is skipped when dist > radius); dmg = 0: the amount is
\* 2 + floor(p.level/2), read again for every target (aoeDamageServer)
Hits(w, pid, tid, d) ==
  LET p == w.pl[pid]
      t == w.pl[tid]
      r2 == d.radius * d.radius
  IN /\ IF d.strict THEN Dist2(t, p) < r2 ELSE ~(Dist2(t, p) > r2)
     /\ d.cone = "all" \/ InCone(p.facing, t.x - p.x, t.y - p.y, d.cone)

\* a loop over the players without the test "if(id === p.id) continue"
RECURSIVE DamageAll(_, _, _, _)
DamageAll(w, pid, i, d) ==
  IF i > Len(w.ord) THEN w
  ELSE LET tid == w.ord[i]
       IN IF ~Hits(w, pid, tid, d) THEN DamageAll(w, pid, i + 1, d)
          ELSE DamageAll(
                 applyDamage(w, tid,
                             IF d.dmg = 0 THEN 2 + (w.pl[pid].level \div 2) ELSE d.dmg,
                             pid),
                 pid, i + 1, d)

RECURSIVE DamageOthers(_, _, _, _)
DamageOthers(w, pid, i, d) ==
  IF i > Len(w.ord) THEN w
  ELSE LET tid == w.ord[i]
       IN IF tid = pid \/ ~Hits(w, pid, tid, d) THEN DamageOthers(w, pid, i + 1, d)
          ELSE DamageOthers(
                 applyDamage(w, tid,
                             IF d.dmg = 0 THEN 2 + (w.pl[pid].level \div 2) ELSE d.dmg,
                             pid),
                 pid, i + 1, d)

Area(radius, dmg) == [radius |-> radius, strict |-> TRUE, cone |-> "all", dmg |-> dmg]
Arc(radius, cone, dmg) ==
  [radius |-> radius, strict |-> FALSE, cone |-> cone, dmg |-> dmg]

aoeDamageServer(w, pid, radius) == DamageOthers(w, pid, 1, Area(radius, 0))
dealArcServer(w, pid, radius, cone, dmg) == DamageOthers(w, pid, 1, Arc(radius, cone, dmg))
dealNearby(w, pid, radius, dmg) == DamageOthers(w, pid, 1, Area(radius, dmg))
beamServer(w, pid, range, dmg) == DamageOthers(w, pid, 1, Arc(range, "beam", dmg))

\* handleAttack (server.js 339-348): d < 40, Math.max(1, Math.floor(p.damage))
ATTACK_RANGE == 40
\* a basic attack whose damage grows with the attacker's level
handleAttackLevelled(w, pid) ==
  dealNearby(w, pid, ATTACK_RANGE, Max(1, w.pl[pid].damage \div 2) + w.pl[pid].level)

handleAttack(w, pid) ==
  dealNearby(w, pid, ATTACK_RANGE, Max(1, w.pl[pid].damage \div 2))

\* dashServer (server.js 246-254)
\* a dash that does not clamp the landing point to the map
dashServerUnclamped(w, pid, dist, dmg) ==
  LET p == w.pl[pid]
      nx == CASE p.facing = "left"  -> p.x - dist
              [] p.facing = "right" -> p.x + dist
              [] OTHER -> p.x
      ny == CASE p.facing = "up"   -> p.y - dist
              [] p.facing = "down" -> p.y + dist
              [] OTHER -> p.y
  IN dealNearby(SetP(w, pid, [p EXCEPT !.x = nx, !.y = ny]), pid, 36 + p.level * 2, dmg)

dashServer(w, pid, dist, dmg) ==
  LET p == w.pl[pid]
      nx == CASE p.facing = "left"  -> clamp(p.x - dist, 0, MAP_PX)
              [] p.facing = "right" -> clamp(p.x + dist, 0, MAP_PX)
              [] OTHER -> p.x
      ny == CASE p.facing = "up"   -> clamp(p.y - dist, 0, MAP_PX)
              [] p.facing = "down" -> clamp(p.y + dist, 0, MAP_PX)
              [] OTHER -> p.y
      w1 == SetP(w, pid, [p EXCEPT !.x = nx, !.y = ny])
  IN dealNearby(w1, pid, 36 + p.level * 2, dmg)

\* ----- Projectiles (server.js 260-273); positions in thousandths of a pixel,
\* vx, vy the displacement of one projectile step (velocity * dt) -----
PROJ_CAP == 200
PROJ_LIFE == 20
MILLI == 1000

spawnProj(w, pid, type, vx, vy, dmg) ==
  IF Len(w.pr) > PROJ_CAP THEN w
  ELSE [w EXCEPT !.pr = Append(@,
          [owner |-> pid,
           x |-> MILLI * w.pl[pid].x + (MILLI * PLAYER_W) \div 2,
           y |-> MILLI * w.pl[pid].y + (MILLI * PLAYER_H) \div 2,
           vx |-> vx, vy |-> vy, life |-> PROJ_LIFE, damage |-> dmg, type |-> type])]

\* (cos, sin) of facingToAngle(f) + off scaled by the step length, given
\* c = step * cos(off) and s = step * sin(off)
Turned(f, c, s) ==
  CASE f = "up"   -> [x |-> s,  y |-> -c]
    [] f = "down" -> [x |-> -s, y |-> c]
    [] f = "left" -> [x |-> -c, y |-> -s]
    [] OTHER      -> [x |-> c,  y |-> s]

RECURSIVE ISqrtIn(_, _, _)
ISqrtIn(n, lo, hi) ==
  IF lo >= hi THEN lo
  ELSE LET mid == (lo + hi + 1) \div 2
       IN IF mid * mid <= n THEN ISqrtIn(n, mid, hi) ELSE ISqrtIn(n, lo, mid - 1)
ISqrt(n) == ISqrtIn(n, 0, 40000)

\* step * (cos, sin) of Math.atan2(dy, dx); atan2(0, 0) is 0
Toward(dx, dy, step) ==
  IF dx = 0 /\ dy = 0 THEN [x |-> step, y |-> 0]
  ELSE LET d10 == ISqrt(100 * (dx * dx + dy * dy))
       IN [x |-> (10 * step * dx) \div d10, y |-> (10 * step * dy) \div d10]

\* multiShotServer (server.js 293-299): count = 3, offsets -0.12, 0, 0.12 rad,
\* speed 420: 42 * cos(0.12) = 41.698, 42 * sin(0.12) = 5.028
multiShotServer(w, pid) ==
  LET f == w.pl[pid].facing
      dmg == 2 + (w.pl[pid].level \div 2)
      v1 == Turned(f, 41698, -5028)
      v2 == Turned(f, 42000, 0)
      v3 == Turned(f, 41698, 5028)
      w1 == spawnProj(w, pid, "arrow", v1.x, v1.y, dmg)
      w2 == spawnProj(w1, pid, "arrow", v2.x, v2.y, dmg)
  IN spawnProj(w2, pid, "arrow", v3.x, v3.y, dmg)

\* the nearest other entity, the first in key order among equals ("none" if
\* there is no other): the loops of trackingArrowServer and critStabServer
RECURSIVE NearestFrom(_, _, _, _)
NearestFrom(w, pid, i, best) ==
  IF i > Len(w.ord) THEN best
  ELSE LET tid == w.ord[i]
       IN IF tid # pid /\ (best = "none" \/ Dist2(w.pl[tid], w.pl[pid]) < Dist2(w.pl[best], w.pl[pid]))
            THEN NearestFrom(w, pid, i + 1, tid)
            ELSE NearestFrom(w, pid, i + 1, best)
Nearest(w, pid) == NearestFrom(w, pid, 1, "none")

\* trackingArrowServer (server.js 300-312), speed 380
trackingArrowServer(w, pid) ==
  LET p == w.pl[pid]
      t == Nearest(w, pid)
      dmg == 3 + (p.level \div 2)
      v == IF t # "none" THEN Toward(w.pl[t].x - p.x, w.pl[t].y - p.y, 38000)
           ELSE Turned(p.facing, 38000, 0)
  IN spawnProj(w, pid, "arrow", v.x, v.y, dmg)

\* critStabServer (server.js 316-320)
critStabServer(w, pid) ==
  LET t == Nearest(w, pid)
  IN IF t # "none" /\ Dist2(w.pl[t], w.pl[pid]) < 80 * 80
       THEN applyDamage(w, t, w.pl[pid].damage, pid)
       ELSE w

\* ----- Heals and timed status effects (server.js 292, 313-315, 321-336) -----
BUFF_SPEED == 180

SetStatus(w, pid, st) == SetP(w, pid, [w.pl[pid] EXCEPT !.status = st])

shieldServer(w, pid, dur) ==
  SetStatus(w, pid, [w.pl[pid].status EXCEPT !.shield = w.now + dur * SEC])
invisServer(w, pid, dur) ==
  SetStatus(w, pid, [w.pl[pid].status EXCEPT !.invisUntil = w.now + dur * SEC])
speedBuffServer(w, pid, dur) ==
  LET w1 == SetStatus(w, pid, [w.pl[pid].status EXCEPT !.speedUntil = w.now + dur * SEC])
      w2 == SetP(w1, pid, [w1.pl[pid] EXCEPT !.speed = BUFF_SPEED])
  IN AddTimer(w2, "speed", pid, dur * SEC)
rageServer(w, pid, dur) ==
  LET w1 == SetStatus(w, pid, [w.pl[pid].status EXCEPT !.rageUntil = w.now + dur * SEC])
      w2 == SetP(w1, pid, [w1.pl[pid] EXCEPT !.damage = @ + 2])
  IN AddTimer(w2, "rage", pid, dur * SEC)
transformDragonServer(w, pid) ==
  LET w1 == SetStatus(w, pid,
              [w.pl[pid].status EXCEPT !.transformedUntil = w.now + 8 * SEC])
      w2 == SetP(w1, pid, [w1.pl[pid] EXCEPT !.maxHp = @ + 2, !.damage = @ + 4])
  IN AddTimer(w2, "transform", pid, 8 * SEC)

healSelfServer(w, pid, amt) ==
  SetP(w, pid, [w.pl[pid] EXCEPT !.hp = Min(w.pl[pid].maxHp, @ + amt)])

RECURSIVE aoeHealFrom(_, _, _, _, _)
aoeHealFrom(w, pid, i, radius, amt) ==
  IF i > Len(w.ord) THEN w
  ELSE LET tid == w.ord[i]
           t == w.pl[tid]
       IN IF Dist2(t, w.pl[pid]) < radius * radius
            THEN aoeHealFrom(SetP(w, tid, [t EXCEPT !.hp = Min(t.maxHp, @ + amt)]),
                             pid, i + 1, radius, amt)
            ELSE aoeHealFrom(w, pid, i + 1, radius, amt)
aoeHealServer(w, pid, radius, amt) == aoeHealFrom(w, pid, 1, radius, amt)

frenzyServer(w, pid, radius) ==
  LET w1 == dealNearby(w, pid, radius, 5)
  IN SetP(w1, pid, [w1.pl[pid] EXCEPT !.hp = Max(1, @ - 1)])

\* a call of a function the file does not define (whirlwindServer,
\* shadowDashServer) throws a ReferenceError out of the handler
Throw(w) == [w EXCEPT !.crashed = TRUE]

\* ----- handleAbility (server.js 142-183) -----
handleAbility(w, pid, type) ==
  LET p == w.pl[pid]
      cls == p.classType
      half == p.level \div 2
      bolt == Turned(p.facing, 36000, 0)
  IN CASE cls = "ninja" /\ type = "q" -> dashServer(w, pid, 120, Max(1, half))
       [] cls = "ninja" /\ type = "e" -> dealArcServer(w, pid, 80 + p.level * 4, "half", 3 + half)
       [] cls = "ninja" /\ type = "x" -> aoeDamageServer(w, pid, 140 + p.level * 10)
       [] cls = "mage" /\ type = "q" -> spawnProj(w, pid, "bolt", bolt.x, bolt.y, 2 + half)
       [] cls = "mage" /\ type = "e" -> aoeDamageServer(w, pid, 100 + p.level * 6)
       [] cls = "mage" /\ type = "x" -> beamServer(w, pid, 220 + p.level * 8, 2 + half)
       [] cls = "warrior" /\ type = "q" -> shieldServer(w, pid, 4)
       [] cls = "warrior" /\ type = "e" -> dealArcServer(w, pid, 90 + p.level * 4, "third", 3 + half)
       [] cls = "warrior" /\ type = "x" -> Throw(w)
       [] cls = "archer" /\ type = "q" -> multiShotServer(w, pid)
       [] cls = "archer" /\ type = "e" -> speedBuffServer(w, pid, 4)
       [] cls = "archer" /\ type = "x" -> trackingArrowServer(w, pid)
       [] cls = "paladin" /\ type = "q" -> healSelfServer(w, pid, 6 + p.level)
       [] cls = "paladin" /\ type = "e" -> dealNearby(w, pid, 60, 3)
       [] cls = "paladin" /\ type = "x" -> dealNearby(w, pid, 200, 4)
       [] cls = "rogue" /\ type = "q" -> invisServer(w, pid, 5)
       [] cls = "rogue" /\ type = "e" -> critStabServer(w, pid)
       [] cls = "rogue" /\ type = "x" -> Throw(w)
       [] cls = "cleric" /\ type = "q" -> healSelfServer(w, pid, 5 + p.level)
       [] cls = "cleric" /\ type = "e" -> aoeHealServer(w, pid, 80, 6)
       [] cls = "cleric" /\ type = "x" -> beamServer(w, pid, 200, 4 + half)
       [] cls = "berserker" /\ type = "q" -> rageServer(w, pid, 6)
       [] cls = "berserker" /\ type = "e" -> dealNearby(w, pid, 90, 4)
       [] cls = "berserker" /\ type = "x" -> frenzyServer(w, pid, 140)
       [] cls = "dragon" /\ type = "q" -> dealNearby(w, pid, 140, 3 + half)
       [] cls = "dragon" /\ type = "e" -> dealNearby(w, pid, 120, 3)
       [] cls = "dragon" /\ type = "x" -> transformDragonServer(w, pid)
       [] OTHER -> w

\* ----- socket.on('input') (server.js 113-133) -----
\* d: [mx, my, facing, attack, q, e, x]; facing "" is an absent facing
SetCD(w, pid, slot, n) ==
  SetP(w, pid,
       CASE slot = "attack" -> [w.pl[pid] EXCEPT !.cooldown = n]
         [] slot = "q" -> [w.pl[pid] EXCEPT !.qCD = n]
         [] slot = "e" -> [w.pl[pid] EXCEPT !.eCD = n]
         [] OTHER -> [w.pl[pid] EXCEPT !.xCD = n])

CDOf(p, slot) ==
  CASE slot = "attack" -> p.cooldown [] slot = "q" -> p.qCD
    [] slot = "e" -> p.eCD [] OTHER -> p.xCD

RechargeOf(slot) ==
  CASE slot = "attack" -> ATTACK_CD [] slot = "q" -> Q_CD
    [] slot = "e" -> E_CD [] OTHER -> X_CD

\* a slot that is honoured whenever it is asked for, whatever its cooldown
TrySlotUngated(w, pid, slot, asked) ==
  IF w.crashed \/ ~asked THEN w
  ELSE LET w1 == IF slot = "attack" THEN handleAttack(w, pid)
                 ELSE handleAbility(w, pid, slot)
       IN IF w1.crashed THEN w1 ELSE SetCD(w1, pid, slot, RechargeOf(slot))

\* one of the four "if(data.slot && p.slotCD <= 0){ handle...; p.slotCD = n; }"
TrySlot(w, pid, slot, asked) ==
  IF w.crashed \/ ~asked \/ ~(CDOf(w.pl[pid], slot) <= 0) THEN w
  ELSE LET w1 == IF slot = "attack" THEN handleAttack(w, pid)
                 ELSE handleAbility(w, pid, slot)
       IN IF w1.crashed THEN w1 ELSE SetCD(w1, pid, slot, RechargeOf(slot))

handleInput(w, pid, d) ==
  LET p == w.pl[pid]
      mx == clamp(d.mx, -1, 1)
      my == clamp(d.my, -1, 1)
      w1 == SetP(w, pid, [p EXCEPT !.lastSeen = w.now,
                                   !.vx = mx * p.speed, !.vy = my * p.speed,
                                   !.facing = IF d.facing # "" THEN d.facing ELSE @])
      w2 == TrySlot(w1, pid, "attack", d.attack)
      w3 == TrySlot(w2, pid, "q", d.q)
      w4 == TrySlot(w3, pid, "e", d.e)
  IN TrySlot(w4, pid, "x", d.x)

\* the state after a handler: w, one more input or disconnect handled if client
Commit(w, client, name, s) ==
  /\ op' = [name |-> name, s |-> s]
  /\ players' = w.pl
  /\ order' = w.ord
  /\ projectiles' = w.pr
  /\ timers' = w.tm
  /\ events' = w.ev
  /\ crashed' = w.crashed
  /\ used' = IF client THEN used + 1 ELSE used

Input(s, d) ==
  /\ ~crashed
  /\ conn[s] = "open"
  /\ Commit(IF Has(Cur, s) THEN handleInput(Cur, s, d) ELSE Cur, TRUE, "input", s)
  /\ UNCHANGED << clock, mainDue, projDue, sweepDue, conn, gens >>

\* ----- io.on('connection') (server.js 96-102) -----
Registered == {s \in Sessions : players[s] # NoPlayer}

\* a connection handler that turns a socket away only above the capacity
ConnectLax(s) ==
  /\ ~crashed
  /\ conn[s] = "new"
  /\ IF Cardinality(Registered) > MAX_PLAYERS
       THEN /\ conn' = [conn EXCEPT ![s] = "closed"]
            /\ Commit(Emit(Cur, [type |-> "full", to |-> s]), FALSE, "connection", s)
       ELSE /\ conn' = [conn EXCEPT ![s] = "open"]
            /\ Commit(Emit(Cur, [type |-> "world", to |-> s]), FALSE, "connection", s)
  /\ UNCHANGED << clock, mainDue, projDue, sweepDue, gens >>

Connect(s) ==
  /\ ~crashed
  /\ conn[s] = "new"
  /\ IF Cardinality(Registered) >= MAX_PLAYERS
       THEN /\ conn' = [conn EXCEPT ![s] = "closed"]
            /\ Commit(Emit(Cur, [type |-> "full", to |-> s]), FALSE, "connection", s)
       ELSE /\ conn' = [conn EXCEPT ![s] = "open"]
            /\ Commit(Emit(Cur, [type |-> "world", to |-> s]), FALSE, "connection", s)
  /\ UNCHANGED << clock, mainDue, projDue, sweepDue, gens >>

\* ----- socket.on('spawn') (server.js 104-111) -----
\* cls: the payload's classType ("" when absent); draw: the random draws
\* a spawn handler without the test "if(players[socket.id]) return"
SpawnAnew(s, cls, draw) ==
  /\ ~crashed
  /\ conn[s] = "open"
  /\ LET p == createPlayer(s, cls, findSpawn(draw), gens + 1, clock)
         w1 == [Cur EXCEPT !.pl[s] = p, !.ord = Append(@, s)]
         w2 == Emit(w1, [type |-> "init", to |-> s, id |-> s])
     IN /\ Commit(Emit(w2, [type |-> "playerJoined", to |-> "others", id |-> s]), FALSE, "spawn", s)
        /\ gens' = gens + 1
  /\ UNCHANGED << clock, mainDue, projDue, sweepDue, conn >>

Spawn(s, cls, draw) ==
  /\ ~crashed
  /\ conn[s] = "open"
  /\ IF players[s] # NoPlayer
       THEN Commit(Cur, FALSE, "spawn", s) /\ UNCHANGED gens
       ELSE LET p == createPlayer(s, cls, findSpawn(draw), gens + 1, clock)
                w1 == [Cur EXCEPT !.pl[s] = p, !.ord = Append(@, s)]
                w2 == Emit(w1, [type |-> "init", to |-> s, id |-> s])
            IN /\ Commit(Emit(w2, [type |-> "playerJoined", to |-> "others", id |-> s]), FALSE, "spawn", s)
               /\ gens' = gens + 1
  /\ UNCHANGED << clock, mainDue, projDue, sweepDue, conn >>

\* ----- socket.on('disconnect') (server.js 135-138) -----
Without(seq, id) == SelectSeq(seq, LAMBDA k : k # id)
Remove(w, id) ==
  Emit([w EXCEPT !.pl[id] = NoPlayer, !.ord = Without(@, id)],
       [type |-> "playerLeft", to |-> "all", id |-> id])

Disconnect(s) ==
  /\ ~crashed
  /\ conn[s] = "open"
  /\ conn' = [conn EXCEPT ![s] = "closed"]
  /\ Commit(Remove(Cur, s), TRUE, "disconnect", s)
  /\ UNCHANGED << clock, mainDue, projDue, sweepDue, gens >>

\* ----- setTimeout callbacks (server.js 205-209, 313, 331, 336) -----
\* the callbacks hold the player object: it is the registry's object only
\* while the registry still maps the id to the object the timer was set for
Attached(w, t) == Has(w, t.id) /\ w.pl[t.id].gen = t.gen

RunTimer(w, t, draw) ==
  LET p == w.pl[t.id]
      sp == findSpawn(draw)
  IN CASE t.kind = "respawn" ->
            IF Attached(w, t)
              THEN Emit(SetP(w, t.id, [p EXCEPT !.x = sp.x, !.y = sp.y, !.hp = p.maxHp]),
                        [type |-> "playerRespawn", to |-> "all", id |-> t.id,
                         attached |-> TRUE, x |-> sp.x, y |-> sp.y, hp |-> p.maxHp])
              ELSE Emit(w, [type |-> "playerRespawn", to |-> "all", id |-> t.id,
                            attached |-> FALSE])
       [] t.kind = "speed" /\ Attached(w, t) ->
            SetP(w, t.id, [p EXCEPT !.speed = BASE_SPEED])
       [] t.kind = "rage" /\ Attached(w, t) ->
            SetP(w, t.id, [p EXCEPT !.damage = Max(2, @ - 2)])
       [] t.kind = "transform" /\ Attached(w, t) ->
            SetP(w, t.id, [p EXCEPT !.maxHp = Max(6, @ - 2), !.damage = Max(2, @ - 4)])
       [] OTHER -> w

\* timers run in the order of their expiry, equal delays in creation order
CanFire(i) ==
  /\ timers[i].due <= clock
  /\ \A j \in 1..Len(timers) :
       /\ ~(timers[j].due < timers[i].due)
       /\ ~(j < i /\ timers[j].kind = timers[i].kind /\ timers[j].due = timers[i].due)

DropAt(seq, i) == SubSeq(seq, 1, i - 1) \o SubSeq(seq, i + 1, Len(seq))

TimerFire(i, draw) ==
  /\ ~crashed
  /\ i \in 1..Len(timers)
  /\ CanFire(i)
  /\ Commit(RunTimer([Cur EXCEPT !.tm = DropAt(@, i)], timers[i], draw), FALSE,
            timers[i].kind, timers[i].id)
  /\ UNCHANGED << clock, mainDue, projDue, sweepDue, conn, gens >>

\* ----- Main tick (server.js 372-416) -----
Expired(until, now) == until # 0 /\ now > until

\* a tick body whose cooldowns are decremented without the floor at zero
tickPlayerNoFloor(p, now) ==
  [p EXCEPT !.cooldown = @ - 1, !.qCD = @ - 1, !.eCD = @ - 1, !.xCD = @ - 1]

\* a tick body that slides: each axis moves on its own when the candidate of
\* that axis alone is free
tickPlayerSliding(p, now) ==
  LET nx == clamp(p.x + p.vx \div TICK_RATE, 0, MAP_PX)
      ny == clamp(p.y + p.vy \div TICK_RATE, 0, MAP_PX)
      x1 == IF BlockedAt(nx, p.y) THEN p.x ELSE nx
  IN [p EXCEPT !.x = x1,
               !.y = IF BlockedAt(x1, ny) THEN @ ELSE ny,
               !.cooldown = Max(0, @ - 1),
               !.qCD = Max(0, @ - 1),
               !.eCD = Max(0, @ - 1),
               !.xCD = Max(0, @ - 1)]

\* the body of "for(const id in players)" for one player: the updates of the
\* players are independent of each other
tickPlayer(p, now) ==
  LET nx == clamp(p.x + p.vx \div TICK_RATE, 0, MAP_PX)
      ny == clamp(p.y + p.vy \div TICK_RATE, 0, MAP_PX)
      blocked == BlockedAt(nx, ny)
      st == p.status
  IN [p EXCEPT !.x = IF blocked THEN @ ELSE nx,
               !.y = IF blocked THEN @ ELSE ny,
               !.cooldown = Max(0, @ - 1),
               !.qCD = Max(0, @ - 1),
               !.eCD = Max(0, @ - 1),
               !.xCD = Max(0, @ - 1),
               !.speed = IF Expired(st.speedUntil, now) THEN BASE_SPEED ELSE @,
               !.status = [st EXCEPT
                  !.invisUntil = IF Expired(@, now) THEN 0 ELSE @,
                  !.speedUntil = IF Expired(@, now) THEN 0 ELSE @,
                  !.shield = IF Expired(@, now) THEN 0 ELSE @,
                  !.transformedUntil = IF Expired(@, now) THEN 0 ELSE @]]

SnapPlayer(p) ==
  [x |-> p.x, y |-> p.y, hp |-> p.hp, maxHp |-> p.maxHp, classType |-> p.classType,
   xp |-> p.xp, level |-> p.level, facing |-> p.facing]
\* Math.round of a position kept in thousandths
Round(v) == (v + MILLI \div 2) \div MILLI
SnapProj(pr) == [x |-> Round(pr.x), y |-> Round(pr.y), type |-> pr.type]

\* a snapshot that leaves out the entities that are dead
SnapshotOfLiving(w) ==
  [type |-> "snapshot", to |-> "all", t |-> w.now,
   players |-> [s \in {k \in Sessions : Has(w, k) /\ w.pl[k].hp > 0} |-> SnapPlayer(w.pl[s])],
   projectiles |-> [i \in 1..Len(w.pr) |-> SnapProj(w.pr[i])]]

Snapshot(w) ==
  [type |-> "snapshot", to |-> "all", t |-> w.now,
   players |-> [s \in {k \in Sessions : Has(w, k)} |-> SnapPlayer(w.pl[s])],
   projectiles |-> [i \in 1..Len(w.pr) |-> SnapProj(w.pr[i])]]

mainTick(w) ==
  LET w1 == [w EXCEPT !.pl = [s \in Sessions |->
                IF Has(w, s) THEN tickPlayer(w.pl[s], w.now) ELSE NoPlayer]]
  IN Emit(w1, Snapshot(w1))

MainTick ==
  /\ ~crashed
  /\ mainDue <= clock
  /\ mainDue' = mainDue + MAIN_PERIOD
  /\ Commit(mainTick(Cur), FALSE, "tick", "none")
  /\ UNCHANGED << clock, projDue, sweepDue, conn, gens >>

\* ----- Projectile interval (server.js 351-369) -----
ProjHits(pr, t) ==
  /\ pr.x >= MILLI * t.x /\ pr.x <= MILLI * (t.x + PLAYER_W)
  /\ pr.y >= MILLI * t.y /\ pr.y <= MILLI * (t.y + PLAYER_H)

\* a collision loop without the test "if(id === pr.owner) continue"
RECURSIVE FirstHitAny(_, _, _)
FirstHitAny(w, pr, k) ==
  IF k > Len(w.ord) THEN "none"
  ELSE IF ProjHits(pr, w.pl[w.ord[k]]) THEN w.ord[k]
  ELSE FirstHitAny(w, pr, k + 1)

\* the first player in key order, other than the owner, the projectile is in
RECURSIVE FirstHit(_, _, _)
FirstHit(w, pr, k) ==
  IF k > Len(w.ord) THEN "none"
  ELSE IF w.ord[k] # pr.owner /\ ProjHits(pr, w.pl[w.ord[k]]) THEN w.ord[k]
  ELSE FirstHit(w, pr, k + 1)

\* a projectile step that removes a projectile only once its life is below 0
RECURSIVE projStepLate(_, _)
projStepLate(w, i) ==
  IF i < 1 THEN w
  ELSE LET o == w.pr[i]
           pr == [o EXCEPT !.x = @ + o.vx, !.y = @ + o.vy, !.life = @ - 1]
           gone == pr.life < 0 \/ pr.x < 0 \/ pr.y < 0
                   \/ pr.x > MILLI * MAP_PX \/ pr.y > MILLI * MAP_PX
           hit == FirstHit(w, pr, 1)
       IN IF gone THEN projStepLate([w EXCEPT !.pr = DropAt(@, i)], i - 1)
          ELSE IF hit # "none"
            THEN projStepLate(applyDamage([w EXCEPT !.pr = DropAt(@, i)], hit, pr.damage, pr.owner),
                              i - 1)
          ELSE projStepLate([w EXCEPT !.pr[i] = pr], i - 1)

RECURSIVE projStep(_, _)
projStep(w, i) ==
  IF i < 1 THEN w
  ELSE LET o == w.pr[i]
           pr == [o EXCEPT !.x = @ + o.vx, !.y = @ + o.vy, !.life = @ - 1]
           gone == pr.life <= 0 \/ pr.x < 0 \/ pr.y < 0
                   \/ pr.x > MILLI * MAP_PX \/ pr.y > MILLI * MAP_PX
           hit == FirstHit(w, pr, 1)
       IN IF gone THEN projStep([w EXCEPT !.pr = DropAt(@, i)], i - 1)
          ELSE IF hit # "none"
            THEN projStep(applyDamage([w EXCEPT !.pr = DropAt(@, i)], hit, pr.damage, pr.owner),
                          i - 1)
          ELSE projStep([w EXCEPT !.pr[i] = pr], i - 1)

ProjTick ==
  /\ ~crashed
  /\ projDue <= clock
  /\ projDue' = projDue + PROJ_PERIOD
  /\ Commit(projStep(Cur, Len(projectiles)), FALSE, "projectiles", "none")
  /\ UNCHANGED << clock, mainDue, sweepDue, conn, gens >>

\* ----- Stale-player sweep (server.js 419-424) -----
RECURSIVE sweepFrom(_, _, _)
sweepFrom(w, ids, i) ==
  IF i > Len(ids) THEN w
  ELSE IF w.now - w.pl[ids[i]].lastSeen > IDLE_LIMIT
    THEN sweepFrom(Remove(w, ids[i]), ids, i + 1)
  ELSE sweepFrom(w, ids, i + 1)

Sweep ==
  /\ ~crashed
  /\ sweepDue <= clock
  /\ sweepDue' = sweepDue + SWEEP_PERIOD
  /\ Commit(sweepFrom(Cur, order, 1), FALSE, "sweep", "none")
  /\ UNCHANGED << clock, mainDue, projDue, conn, gens >>

\* ----- Passage of time: no pending callback is skipped -----
Advance(step, maxClock) ==
  /\ ~crashed
  /\ clock + step <= maxClock
  /\ mainDue >= clock + step /\ projDue >= clock + step /\ sweepDue >= clock + step
  /\ \A i \in 1..Len(timers) : timers[i].due >= clock + step
  /\ clock' = clock + step
  /\ events' = << >>
  /\ op' = [name |-> "time", s |-> "none"]
  /\ UNCHANGED << players, order, projectiles, timers, mainDue, projDue, sweepDue,
                  conn, gens, crashed, used >>

\* ----- The default specification: two sessions join, fight and leave -----
MaxClock == 2
MaxUsed == 2

Pt(x, y) == [x |-> x, y |-> y]
In(mx, my, f, a, q, e, x) ==
  [mx |-> mx, my |-> my, facing |-> f, attack |-> a, q |-> q, e |-> e, x |-> x]

\* draws of findSpawn: a free point at once, or after three draws of the
\* blocked point (600, 600), which lies in the house on the map centre
CombatDraws == {DrawSeq(0, Pt(600, 600), Pt(60, 60)), DrawSeq(3, Pt(600, 600), Pt(80, 60))}
CombatClasses == {"berserker", "paladin"}
CombatInputs ==
  {In(0, 0, "", TRUE, FALSE, FALSE, FALSE),
   In(0, 0, "", FALSE, TRUE, FALSE, FALSE),
   In(0, 0, "", FALSE, FALSE, TRUE, TRUE)}

DoConnect == \E s \in Pair : Connect(s)
DoSpawn == \E s \in Pair, c \in CombatClasses, d \in CombatDraws : Spawn(s, c, d)
DoInput == \E s \in Pair, d \in CombatInputs : used < MaxUsed /\ Input(s, d)
DoDisconnect == \E s \in Pair : used < MaxUsed /\ Disconnect(s)
Tick == Advance(MAIN_PERIOD, MaxClock)

Next == DoConnect \/ DoSpawn \/ DoInput \/ DoDisconnect \/ MainTick \/ Tick

Spec == Init /\ [][Next]_vars

\* ----- The respawn specification: a berserker and a paladin stand side by
\* side (the state after both connected and spawned at clock 0), then fight
\* for a little more than the respawn delay -----
MaxFightClock == 24
MaxFightInputs == 2
LastInputClock == 4

FightDraws ==
  {DrawSeq(0, Pt(600, 600), Pt(60, 60)), DrawSeq(SPAWN_TRIES, Pt(600, 600), Pt(60, 60))}

InitFight ==
  /\ players = [s \in Sessions |->
       CASE s = "s1" -> createPlayer("s1", "berserker", Pt(60, 60), 1, 0)
         [] s = "s2" -> createPlayer("s2", "paladin", Pt(80, 60), 2, 0)
         [] OTHER -> NoPlayer]
  /\ order = << "s1", "s2" >>
  /\ projectiles = << >>
  /\ timers = << >>
  /\ events = << [type |-> "init", to |-> "s2", id |-> "s2"],
                 [type |-> "playerJoined", to |-> "others", id |-> "s2"] >>
  /\ clock = 0
  /\ mainDue = MAIN_PERIOD
  /\ projDue = PROJ_PERIOD
  /\ sweepDue = SWEEP_PERIOD
  /\ conn = [s \in Sessions |-> IF s \in Pair THEN "open" ELSE "new"]
  /\ gens = 2
  /\ crashed = FALSE
  /\ op = [name |-> "spawn", s |-> "s2"]
  /\ used = 0

FightInput ==
  \E s \in Pair, d \in CombatInputs :
    used < MaxFightInputs /\ clock <= LastInputClock /\ Input(s, d)
FightTimer == \E i \in 1..Len(timers), d \in FightDraws : TimerFire(i, d)
FightTime == Advance(MAIN_PERIOD, MaxFightClock)

NextFight == FightInput \/ FightTimer \/ MainTick \/ ProjTick \/ FightTime

SpecRespawn == InitFight /\ [][NextFight]_vars

\* ----- The movement specification: two ninjas join next to a house or in the
\* far corner, walk, dash and strike; the one struck respawns -----
MaxMoveClock == 24
MaxMoves == 2
LastMoveClock == 2

MoveDraws ==
  {DrawSeq(0, Pt(600, 600), Pt(60, 60)), DrawSeq(1, Pt(600, 600), Pt(80, 60)),
   DrawSeq(0, Pt(600, 600), Pt(1155, 1155))}
RespawnDraws ==
  {DrawSeq(2, Pt(600, 600), Pt(1155, 1155)), DrawSeq(SPAWN_TRIES, Pt(600, 600), Pt(60, 60))}
MoveInputs ==
  {In(1, 1, "right", FALSE, FALSE, TRUE, FALSE), In(1, 1, "right", FALSE, TRUE, FALSE, FALSE),
   In(-1, -1, "left", FALSE, TRUE, FALSE, FALSE)}

MoveConnect == \E s \in Pair : Connect(s)
MoveSpawn ==
  \E s \in Pair, d \in MoveDraws : used = 0 /\ Spawn(s, "ninja", d)
MoveInput ==
  \E s \in Pair, d \in MoveInputs :
    used < MaxMoves /\ clock <= LastMoveClock /\ Input(s, d)
MoveTimer == \E i \in 1..Len(timers), d \in RespawnDraws : TimerFire(i, d)
MoveTime == Advance(MAIN_PERIOD, MaxMoveClock)

NextMove == MoveConnect \/ MoveSpawn \/ MoveInput \/ MoveTimer \/ MainTick \/ ProjTick \/ MoveTime

SpecMove == Init /\ [][NextMove]_vars

\* ----- The cooldown specification: a warrior joins and asks for its slots
\* during the first tick periods and again around the end of the Q recharge;
\* time passes in half tick periods, so a request can arrive between two
\* main ticks -----
MaxCoolClock == 84
MaxRequests == 3
EarlyUntil == 2
LateFrom == 78

CoolInputs ==
  {In(0, 0, "", FALSE, TRUE, FALSE, FALSE), In(0, 0, "", TRUE, FALSE, TRUE, FALSE)}

CoolConnect == Connect("s1")
CoolSpawn == clock <= EarlyUntil /\ Spawn("s1", "warrior", DrawSeq(0, Pt(600, 600), Pt(60, 60)))
CoolInput ==
  \E d \in CoolInputs :
    /\ used < MaxRequests
    /\ clock <= EarlyUntil \/ clock >= LateFrom
    /\ Input("s1", d)
HalfTick == Advance(1, MaxCoolClock)

NextCool == CoolConnect \/ CoolSpawn \/ CoolInput \/ MainTick \/ ProjTick \/ HalfTick

SpecCooldown == Init /\ [][NextCool]_vars

\* ----- The projectile specification: an archer joins above two others that
\* stand on the same spot, shoots down, sideways or up, standing or walking
\* down, and the arrows fly until they hit, leave the map or expire; one of
\* the others may leave -----
MaxProjClock == 84
MaxShots == 2
LastShotClock == 2

Trio == {"s1", "s2", "s3"}
ProjDraw(s) ==
  IF s = "s1" THEN DrawSeq(0, Pt(600, 600), Pt(60, 60))
  ELSE DrawSeq(1, Pt(600, 600), Pt(60, 100))
ProjInputs ==
  {In(0, 0, "down", FALSE, TRUE, FALSE, FALSE), In(0, 1, "down", FALSE, TRUE, FALSE, FALSE),
   In(0, 0, "", FALSE, TRUE, FALSE, FALSE), In(0, 0, "up", FALSE, FALSE, FALSE, TRUE)}

NextProj ==
  \/ \E s \in Trio : Connect(s)
  \/ \E s \in Trio : used = 0 /\ clock = 0 /\ Spawn(s, "archer", ProjDraw(s))
  \/ \E d \in ProjInputs : used < MaxShots /\ clock <= LastShotClock /\ Input("s1", d)
  \/ \E i \in 1..Len(timers) : TimerFire(i, ProjDraw("s2"))
  \/ used < MaxShots /\ clock <= LastShotClock /\ Disconnect("s3")
  \/ MainTick
  \/ ProjTick
  \/ Advance(MAIN_PERIOD, MaxProjClock)

SpecProj == Init /\ [][NextProj]_vars

\* ----- The flood specification: within one tick period a client joins as an
\* archer, shoots its volley and its tracking arrow, leaves and comes back on
\* a new socket, again and again; the arrows stay when their owner leaves -----
MaxFloodUsed == 102

\* a client opens a new socket: socket.io gives it a fresh id, here the id of
\* a closed socket, of which nothing is left but the owner field of its arrows
NewSocket(s) ==
  /\ ~crashed
  /\ conn[s] = "closed"
  /\ conn' = [conn EXCEPT ![s] = "new"]
  /\ events' = << >>
  /\ op' = [name |-> "socket", s |-> s]
  /\ UNCHANGED << players, order, projectiles, timers, clock, mainDue, projDue,
                  sweepDue, gens, crashed, used >>

NextFlood ==
  \/ NewSocket("s1")
  \/ Connect("s1")
  \/ Spawn("s1", "archer", DrawSeq(0, Pt(600, 600), Pt(60, 60)))
  \/ used < MaxFloodUsed /\ Input("s1", In(0, 0, "", FALSE, TRUE, FALSE, TRUE))
  \/ used < MaxFloodUsed /\ Disconnect("s1")

SpecFlood == Init /\ [][NextFlood]_vars

\* ----- The duel specification (scenario A): two warriors join side by side
\* and the second one attacks the first whenever it likes -----
MaxDuelClock == 58
MaxBlows == 3

DuelDraw(s) ==
  IF s = "s1" THEN DrawSeq(0, Pt(600, 600), Pt(60, 60))
  ELSE DrawSeq(0, Pt(600, 600), Pt(80, 60))

NextDuel ==
  \/ \E s \in Pair : Connect(s)
  \/ \E s \in Pair : used = 0 /\ clock = 0 /\ Spawn(s, "warrior", DuelDraw(s))
  \/ used < MaxBlows /\ Input("s2", In(0, 0, "", TRUE, FALSE, FALSE, FALSE))
  \/ \E i \in 1..Len(timers) : TimerFire(i, DuelDraw("s1"))
  \/ MainTick
  \/ ProjTick
  \/ Advance(MAIN_PERIOD, MaxDuelClock)

SpecDuel == Init /\ [][NextDuel]_vars

\* ----- The crowd specification: seven clients connect and then join as
\* warriors in the order of their arrival, each one at once or after others
\* have connected, and some leave again -----
MaxLeaves == 1
\* the socket ids, which are arbitrary, in the order in which the sockets arrive
Arrival == << "s1", "s2", "s3", "s4", "s5", "s6", "s7" >>

NextCrowd ==
  \/ \E i \in 1..Len(Arrival) :
       (\A j \in 1..(i - 1) : conn[Arrival[j]] # "new") /\ Connect(Arrival[i])
  \/ \E i \in 1..Len(Arrival) :
       /\ \A j \in 1..(i - 1) : conn[Arrival[j]] = "open" => Arrival[j] \in Registered
       /\ Spawn(Arrival[i], "warrior", DrawSeq(0, Pt(600, 600), Pt(60, 60)))
  \/ \E s \in Sessions : used < MaxLeaves /\ Disconnect(s)

SpecCrowd == Init /\ [][NextCrowd]_vars

\* ----- The idle specification: two warriors join; the second one sends an
\* input now and then, the first one none, and the first one's socket closes
\* at some time; inputs and the disconnect arrive when a sweep is due or was
\* just run, after both have joined -----
MaxIdleClock == 7 * SWEEP_PERIOD + 2 * MAIN_PERIOD
MaxIdleUsed == 2

NextIdle ==
  \/ \E s \in Pair : clock = 0 /\ Connect(s)
  \/ \E s \in Pair : used = 0 /\ clock = 0 /\ Spawn(s, "warrior", DuelDraw(s))
  \/ /\ gens = 2 /\ used < MaxIdleUsed /\ clock % SWEEP_PERIOD = 0
     /\ Input("s2", In(0, 0, "", FALSE, FALSE, FALSE, FALSE))
  \/ gens = 2 /\ used < MaxIdleUsed /\ clock % SWEEP_PERIOD = 0 /\ Disconnect("s1")
  \/ MainTick
  \/ ProjTick
  \/ Sweep
  \/ Advance(MAIN_PERIOD, MaxIdleClock)

SpecIdle == Init /\ [][NextIdle]_vars

\* ----- The effects specification: one entity of a class that has a timed
\* effect joins, asks for one slot at once, and time passes until the longest
\* effect (the dragon's transformation, 8 s) is over -----
MaxEffectClock == 8 * SEC + 2 * MAIN_PERIOD
MaxCasts == 1
EffectClasses == {"warrior", "archer", "rogue", "berserker", "dragon"}

NextEffects ==
  \/ Connect("s1")
  \/ \E c \in EffectClasses :
       used = 0 /\ clock = 0 /\ Spawn("s1", c, DrawSeq(0, Pt(600, 600), Pt(60, 60)))
  \/ \E d \in CombatInputs : used < MaxCasts /\ clock = 0 /\ Input("s1", d)
  \/ \E i \in 1..Len(timers) : TimerFire(i, DrawSeq(0, Pt(600, 600), Pt(60, 60)))
  \/ MainTick
  \/ ProjTick
  \/ Sweep
  \/ Advance(MAIN_PERIOD, MaxEffectClock)

SpecEffects == Init /\ [][NextEffects]_vars

\* ----- The classes specification: an entity of any class, named by the
\* spawn request with one of the nine names, with another name or with none,
\* joins at (100, 100) next to a paladin that stands right of it, up and left
\* of it or far left and slightly up of it; it sends inputs before the first
\* tick -----
MaxClassClock == 10
MaxActs == 2
LastActClock == 0

RequestedClasses == ClassNames \cup {"wizard", ""}
ClassDraw(s, k) ==
  IF s = "s1" THEN DrawSeq(0, Pt(600, 600), Pt(100, 100))
  ELSE DrawSeq(0, Pt(600, 600), << Pt(120, 100), Pt(80, 90), Pt(60, 95) >>[k])
ClassInputs ==
  {In(0, 0, "right", TRUE, FALSE, FALSE, FALSE), In(1, 0, "right", FALSE, TRUE, FALSE, FALSE),
   In(0, 0, "left", FALSE, FALSE, TRUE, FALSE), In(0, 0, "left", FALSE, FALSE, FALSE, TRUE),
   In(0, 0, "up", FALSE, TRUE, TRUE, FALSE), In(1, 1, "", FALSE, FALSE, FALSE, TRUE),
   In(-3, 0, "down", FALSE, FALSE, TRUE, FALSE), In(0, -1, "north", FALSE, FALSE, FALSE, FALSE)}

NextClasses ==
  \/ \E s \in Pair : clock = 0 /\ Connect(s)
  \/ \E c \in RequestedClasses : used = 0 /\ clock = 0 /\ Spawn("s1", c, ClassDraw("s1", 1))
  \/ \E k \in 1..3 : used = 0 /\ clock = 0 /\ Spawn("s2", "paladin", ClassDraw("s2", k))
  \/ \E d \in ClassInputs : used < MaxActs /\ clock <= LastActClock /\ Input("s1", d)
  \/ MainTick
  \/ ProjTick
  \/ Advance(MAIN_PERIOD, MaxClassClock)

SpecClasses == Init /\ [][NextClasses]_vars

\* ----- The leaving specification: a berserker and a paladin stand side by
\* side and fight at clock 0; one of them leaves while a respawn or a buff
\* reversal is pending for it and may come back on a new socket; time then
\* passes until the last callback has run -----
MaxGoneClock == 6 * SEC + 2 * MAIN_PERIOD
MaxGoneUsed == 3
LastGoneClock == 0

NextGone ==
  \/ \E d \in CombatInputs :
       used < MaxGoneUsed /\ clock <= LastGoneClock /\ Input("s1", d)
  \/ \E s \in Pair : used < MaxGoneUsed /\ clock <= LastGoneClock /\ Disconnect(s)
  \/ \E s \in Pair : clock <= LastGoneClock /\ NewSocket(s)
  \/ \E s \in Pair : clock <= LastGoneClock /\ Connect(s)
  \/ \E s \in Pair : clock <= LastGoneClock /\ Spawn(s, "paladin", DuelDraw(s))
  \/ \E i \in 1..Len(timers) : TimerFire(i, DrawSeq(0, Pt(600, 600), Pt(100, 60)))
  \/ MainTick
  \/ ProjTick
  \/ Sweep
  \/ Advance(MAIN_PERIOD, MaxGoneClock)

SpecGone == InitFight /\ [][NextGone]_vars

\* ----- Vocabulary of the properties -----
Live(s) == players[s] # NoPlayer
\* the respawn callbacks pending for the object the registry holds for s
PendingRespawns(s) ==
  {i \in 1..Len(timers) :
     timers[i].kind = "respawn" /\ timers[i].id = s /\ timers[i].gen = players[s].gen}
\* dead_pending_respawn: hp reached <= 0 and the respawn has not happened yet
DeadPending(s) == Live(s) /\ players[s].hp <= 0 /\ PendingRespawns(s) # {}
HasEvent(ev, type, to) == \E i \in 1..Len(ev) : ev[i].type = type /\ ev[i].to = to
HitsFrom(ev, s) == \E i \in 1..Len(ev) : ev[i].type = "hit" /\ ev[i].from = s
Cooldowns(p) == << p.cooldown, p.qCD, p.eCD, p.xCD >>

\* C1: every entity of the registry has 0 <= hp <= maxHp in every reachable
\* state.
C1_HpWithinBounds ==
  \A s \in Sessions :
    Live(s) => 0 <= players[s].hp /\ players[s].hp <= players[s].maxHp

\* C3: while an entity is dead_pending_respawn no step applies damage to it:
\* no hit is addressed to it, its hp does not drop, it gets no further died
\* notification and no further respawn timer.
C3_DeadIsNotDamaged ==
  [][\A s \in Sessions :
       (DeadPending(s) /\ Live(s)' /\ players'[s].gen = players[s].gen)
         => /\ ~HasEvent(events', "hit", s)
            /\ ~HasEvent(events', "died", s)
            /\ players'[s].hp >= players[s].hp
            /\ Cardinality(PendingRespawns(s)') <= Cardinality(PendingRespawns(s))]_vars

\* C4: an input event of a session whose entity is dead_pending_respawn
\* triggers no attack and no ability and starts no cooldown.
C4_DeadDoesNotAct ==
  [][\A s \in Sessions :
       (DeadPending(s) /\ op'.name = "input" /\ op'.s = s)
         => /\ ~HitsFrom(events', s)
            /\ Cooldowns(players'[s]) = Cooldowns(players[s])
            /\ players'[s].hp = players[s].hp
            /\ players'[s].status = players[s].status
            /\ players'[s].x = players[s].x /\ players'[s].y = players[s].y
            /\ projectiles' = projectiles]_vars

\* the respawn callback of the object the registry holds for s has just run
Respawned(s) ==
  /\ op.name = "respawn" /\ op.s = s
  /\ \E i \in 1..Len(events) :
       events[i].type = "playerRespawn" /\ events[i].id = s /\ events[i].attached
SameObject(s) == Live(s) /\ Live(s)' /\ players'[s].gen = players[s].gen

\* C2: an entity only cycles alive -> dead_pending_respawn -> alive: hp comes
\* back from <= 0 to > 0 only through the respawn step, the respawn step is
\* only applied to an entity that is dead, and a death has exactly one respawn
\* step pending (never two for the same entity).
C2_LifecycleCycle ==
  [][\A s \in Sessions :
       SameObject(s) =>
         /\ (players[s].hp <= 0 /\ players'[s].hp > 0) => Respawned(s)'
         /\ Respawned(s)' => players[s].hp <= 0
         /\ Cardinality(PendingRespawns(s)') <= 1]_vars

\* C5 (as stated): a death schedules the respawn one respawn delay later, the
\* respawn runs when that delay has elapsed, and it leaves hp = maxHp and a
\* position whose collision box overlaps no obstacle rectangle.
C5_RespawnFreeOfObstacles ==
  [][\A s \in Sessions :
       /\ (HasEvent(events', "died", s) /\ Live(s)')
            => \E i \in PendingRespawns(s)' : timers'[i].due = clock' + RESPAWN_DELAY
       /\ \A i \in 1..Len(timers') : timers'[i].due >= clock'
       /\ (SameObject(s) /\ Respawned(s)')
            => /\ \E i \in PendingRespawns(s) : timers[i].due = clock
               /\ players'[s].hp = players'[s].maxHp
               /\ ~BlockedAt(players'[s].x, players'[s].y)]_vars

\* C5 (amended): a death schedules the respawn one respawn delay later, the
\* respawn runs when that delay has elapsed, and it leaves hp = maxHp and a
\* position whose collision box overlaps no obstacle rectangle, or the map
\* centre when all the sampled points overlapped an obstacle.
C5_RespawnAtSpawnPoint ==
  [][\A s \in Sessions :
       /\ (HasEvent(events', "died", s) /\ Live(s)')
            => \E i \in PendingRespawns(s)' : timers'[i].due = clock' + RESPAWN_DELAY
       /\ \A i \in 1..Len(timers') : timers'[i].due >= clock'
       /\ (SameObject(s) /\ Respawned(s)')
            => /\ \E i \in PendingRespawns(s) : timers[i].due = clock
               /\ players'[s].hp = players'[s].maxHp
               /\ \/ ~BlockedAt(players'[s].x, players'[s].y)
                  \/ /\ players'[s].x = MapCentre.x
                     /\ players'[s].y = MapCentre.y]_vars

\* a respawn that fell back to the map centre, which a house covers
C5_RespawnedAtCentre ==
  \E s \in Sessions :
    /\ Respawned(s) /\ Live(s)
    /\ players[s].hp = players[s].maxHp
    /\ players[s].x = MapCentre.x /\ players[s].y = MapCentre.y
    /\ BlockedAt(MapCentre.x, MapCentre.y)

\* C6: applyDamage(target, d, source) with d < target.hp subtracts exactly d
\* from the target's hp and changes nothing else: the other fields of the
\* target, the source, the timers and the projectiles are unchanged, and the
\* only notifications are the hit and the hit flash.
C6_NonLethalDamage ==
  \A t \in Sessions, f \in Sessions :
    Live(t) =>
      \A d \in 1..(players[t].hp - 1) :
        LET w == applyDamage(Cur, t, d, f)
        IN /\ w.pl = [players EXCEPT ![t].hp = @ - d]
           /\ w.ord = order /\ w.pr = projectiles /\ w.tm = timers
           /\ w.crashed = crashed
           /\ w.ev = Cur.ev \o
                << [type |-> "hit", to |-> t, dmg |-> d, from |-> f],
                   [type |-> "playerHitFlash", to |-> "all", id |-> t] >>

\* a step whose damage left the target alive: hit and hit flash, no death
C6_HitWithoutDeath ==
  \E t \in Sessions :
    /\ Live(t) /\ players[t].hp > 0 /\ players[t].hp < players[t].maxHp
    /\ HasEvent(events, "hit", t)
    /\ \E i \in 1..Len(events) : events[i].type = "playerHitFlash" /\ events[i].id = t
    /\ ~HasEvent(events, "died", t)
    /\ timers = << >>

\* C8: each of the four cooldowns of every entity is >= 0 in every reachable
\* state.
C8_CooldownsNonNegative ==
  \A s \in Sessions :
    Live(s) => /\ players[s].cooldown >= 0 /\ players[s].qCD >= 0
               /\ players[s].eCD >= 0 /\ players[s].xCD >= 0

\* a tick that decremented a running cooldown and left an idle one at zero
C8_TickedAtZero ==
  \E s \in Sessions :
    /\ Live(s) /\ op.name = "tick"
    /\ players[s].cooldown = 0 /\ players[s].qCD = Q_CD - 1

\* C9: the position of every entity satisfies 0 <= x <= MAP_PX and
\* 0 <= y <= MAP_PX in every reachable state (after creation, tick movement,
\* dashes and respawn).
C9_PositionWithinMap ==
  \A s \in Sessions :
    Live(s) => /\ 0 <= players[s].x /\ players[s].x <= MAP_PX
               /\ 0 <= players[s].y /\ players[s].y <= MAP_PX

\* a tick whose candidate left the map and was clamped to the corner
C9_ClampedAtCorner ==
  \E s \in Sessions :
    /\ Live(s) /\ op.name = "tick"
    /\ players[s].x = 0 /\ players[s].y = 0 /\ players[s].vx < 0 /\ players[s].vy < 0

\* the candidate of the movement step of p
Candidate(p) ==
  [x |-> clamp(p.x + p.vx \div TICK_RATE, 0, MAP_PX),
   y |-> clamp(p.y + p.vy \div TICK_RATE, 0, MAP_PX)]

\* C10: in a main tick the position of an entity becomes the clamped candidate
\* if and only if the candidate's box overlaps no obstacle rectangle; an
\* overlapping candidate leaves both x and y unchanged.
C10_MoveAllOrNothing ==
  [][op'.name = "tick" =>
       \A s \in Sessions :
         Live(s) =>
           LET c == Candidate(players[s])
           IN IF BlockedAt(c.x, c.y)
                THEN players'[s].x = players[s].x /\ players'[s].y = players[s].y
                ELSE players'[s].x = c.x /\ players'[s].y = c.y]_vars

\* a tick that rejected a move into the house east of the spawn point, whose
\* vertical part alone was free
C10_RejectedWhole ==
  \E s \in Sessions :
    /\ Live(s) /\ op.name = "tick"
    /\ players[s].x = 80 /\ players[s].y = 60
    /\ players[s].vx > 0 /\ players[s].vy > 0
    /\ BlockedAt(Candidate(players[s]).x, Candidate(players[s]).y)
    /\ ~BlockedAt(players[s].x, Candidate(players[s]).y)

Slots == {"attack", "q", "e", "x"}
\* the step is an input of s that activated the slot
Honoured(s, slot) ==
  /\ op'.name = "input" /\ op'.s = s
  /\ CDOf(players[s], slot) <= 0
  /\ CDOf(players'[s], slot) = RechargeOf(slot)
\* the step is an input of s that activated nothing: it changed at most the
\* velocity, the facing and the time of the last input of s
Idle(s) ==
  /\ events' = << >> /\ projectiles' = projectiles /\ timers' = timers
  /\ players' = [players EXCEPT ![s].lastSeen = players'[s].lastSeen,
                                ![s].vx = players'[s].vx, ![s].vy = players'[s].vy,
                                ![s].facing = players'[s].facing]
\* the rules of a cooldown: only an input of s that finds it at zero raises
\* it, to the recharge of the slot; only a main tick lowers it, by one tick
\* period; an input of s that activates no slot has no effect
Gated(s) ==
  /\ \A slot \in Slots :
       /\ CDOf(players'[s], slot) > CDOf(players[s], slot) => Honoured(s, slot)
       /\ CDOf(players'[s], slot) < CDOf(players[s], slot)
            => op'.name = "tick" /\ CDOf(players'[s], slot) = CDOf(players[s], slot) - 1
  /\ (op'.name = "input" /\ op'.s = s /\ Cooldowns(players'[s]) = Cooldowns(players[s]))
       => Idle(s)

C11_SpawnIdempotent ==
  [][/\ \A s \in Sessions :
          (Live(s) /\ op'.name = "spawn" /\ op'.s = s)
            => /\ players' = players /\ order' = order /\ gens' = gens
               /\ projectiles' = projectiles /\ timers' = timers
               /\ events' = << >>
     /\ \A i, j \in 1..Len(order') : order'[i] = order'[j] => i = j
     /\ {order'[i] : i \in 1..Len(order')} = Registered'
     /\ \A s \in Registered' : players'[s].id = s]_vars

\* a second spawn request of a session whose entity has taken damage since
\* it joined
C11_SpawnedTwice ==
  \E s \in Sessions :
    /\ Live(s) /\ op = [name |-> "spawn", s |-> s]
    /\ events = << >> /\ used > 0
    /\ players[s].hp < players[s].maxHp

\* a projectile after one projectile step: moved by its velocity, one step older
Moved(pr) == [pr EXCEPT !.x = @ + pr.vx, !.y = @ + pr.vy, !.life = @ - 1]
InMap(pr) ==
  /\ pr.x >= 0 /\ pr.y >= 0 /\ pr.x <= MILLI * MAP_PX /\ pr.y <= MILLI * MAP_PX
\* the entities, other than the owner, whose box holds the projectile
StruckIn(pl, pr) ==
  {s \in Sessions \ {pr.owner} :
     /\ pl[s] # NoPlayer
     /\ pr.x >= MILLI * pl[s].x /\ pr.x <= MILLI * (pl[s].x + PLAYER_W)
     /\ pr.y >= MILLI * pl[s].y /\ pr.y <= MILLI * (pl[s].y + PLAYER_H)}
Struck(pr) == StruckIn(players, pr)
\* the projectile flies on through the coming step: still in the map, hitting
\* nobody, with lifetime left
Flies(pr) == Moved(pr).life > 0 /\ InMap(Moved(pr)) /\ Struck(Moved(pr)) = {}
Hitting(pr) == Moved(pr).life > 0 /\ InMap(Moved(pr)) /\ Struck(Moved(pr)) # {}
HitEvents(ev) == {i \in 1..Len(ev) : ev[i].type = "hit"}

\* C12: a projectile is created with lifetime PROJ_LIFE steps (2.0 s of
\* simulated time), only a projectile step changes it, and a projectile that
\* hits nobody and stays in the map is kept, one step older, while lifetime is
\* left and removed in the step in which its lifetime is used up.
C12_RemovedWhenLifeElapsed ==
  [][/\ op'.name = "projectiles" =>
          LET keep == SelectSeq(projectiles, Flies)
          IN projectiles' = [i \in 1..Len(keep) |-> Moved(keep[i])]
     /\ op'.name = "input" =>
          /\ Len(projectiles') >= Len(projectiles)
          /\ SubSeq(projectiles', 1, Len(projectiles)) = projectiles
          /\ \A i \in (Len(projectiles) + 1)..Len(projectiles') :
               projectiles'[i].life = PROJ_LIFE
     /\ op'.name \notin {"projectiles", "input"} => projectiles' = projectiles
     /\ \A i \in 1..Len(projectiles') :
          projectiles'[i].life >= 1 /\ projectiles'[i].life <= PROJ_LIFE]_vars

\* the twentieth projectile step after a volley shot sideways over the empty
\* map has removed the arrows
C12_VolleyExpired ==
  /\ Live("s1") /\ op.name = "projectiles"
  /\ players["s1"].facing = "none" /\ players["s1"].xCD = 0
  /\ players["s1"].lastSeen < PROJ_PERIOD /\ used > 0
  /\ clock = PROJ_LIFE * PROJ_PERIOD /\ projDue = clock + PROJ_PERIOD
  /\ projectiles = << >>

\* C13: in a projectile step every projectile that hits damages exactly one
\* entity, never its owner, and is removed in that step; no projectile stays
\* that left the map or that stands in the box of an entity other than its
\* owner.
C13_FirstHitWins ==
  [][op'.name = "projectiles" =>
       /\ Cardinality(HitEvents(events'))
            = Cardinality({i \in 1..Len(projectiles) : Hitting(projectiles[i])})
       /\ \A i \in HitEvents(events') :
            /\ events'[i].to # events'[i].from
            /\ \E k \in 1..Len(projectiles) :
                 /\ Hitting(projectiles[k]) /\ projectiles[k].owner = events'[i].from
                 /\ events'[i].to \in Struck(Moved(projectiles[k]))
                 /\ events'[i].dmg = projectiles[k].damage
       /\ Len(projectiles') = Cardinality({i \in 1..Len(projectiles) : Flies(projectiles[i])})
       /\ \A i \in 1..Len(projectiles') :
            InMap(projectiles'[i]) /\ StruckIn(players', projectiles'[i]) = {}]_vars

\* a volley that reached two entities standing on the same spot: the arrows
\* are gone and only one of the two was hit
C13_OneOfTwoHit ==
  \E a, b \in Sessions :
    /\ a # b /\ Live(a) /\ Live(b) /\ op.name = "projectiles"
    /\ players[a].x = players[b].x /\ players[a].y = players[b].y
    /\ HasEvent(events, "hit", a) /\ ~HasEvent(events, "hit", b)
    /\ players[a].hp < players[a].maxHp /\ players[b].hp = players[b].maxHp
    /\ projectiles = << >>

\* C14: the number of live projectiles never exceeds the cap PROJ_CAP (a spawn
\* request made at the cap creates no projectile).
C14_ProjectilesWithinCap == Len(projectiles) <= PROJ_CAP

\* the events of one type, in the order in which they were sent
EventsOf(ev, type) == SelectSeq(ev, LAMBDA e : e.type = type)
\* E2 (session s2) has just struck E1 (session s1, a warrior) with its basic
\* attack, E1 having had hp h before the blow
Blow(h) ==
  /\ op'.name = "input"
  /\ op'.s = "s2"
  /\ Live("s1") /\ players["s1"].classType = "warrior" /\ players["s1"].maxHp = 8
  /\ players["s1"].hp = h
  /\ HitsFrom(events', "s2")
DiedOnceBy(ev, s, by) ==
  /\ Len(EventsOf(ev, "died")) = 1
  /\ EventsOf(ev, "died")[1].to = s
  /\ EventsOf(ev, "died")[1].by = by

\* C15 as it is stated: the second blow of 3 on a warrior at full health (the
\* blow that finds it at hp 5) leaves it with hp <= 0, dead and pending
\* respawn, with exactly one died notification that names E2.
C15_DeadAfterSecondBlow ==
  [][Blow(5) => /\ players'["s1"].hp <= 0
                /\ DeadPending("s1")'
                /\ DiedOnceBy(events', "s1", "s2")]_vars

\* C15: every blow of E2's basic attack takes exactly 3 from the warrior E1
\* (maxHp 8). The second blow on a warrior at full health leaves it alive with
\* hp 2 and no died notification; it is the third blow that leaves it with
\* hp <= 0, dead and pending respawn, with exactly one died notification that
\* names E2.
C15_DeadAfterThirdBlow ==
  [][/\ \A h \in 1..8 : Blow(h) =>
          /\ players'["s1"].hp = h - 3
          /\ EventsOf(events', "hit") =
               << [type |-> "hit", to |-> "s1", dmg |-> 3, from |-> "s2"] >>
     /\ Blow(8) => players'["s1"].hp = 5 /\ EventsOf(events', "died") = << >>
     /\ Blow(5) => /\ players'["s1"].hp = 2
                   /\ EventsOf(events', "died") = << >>
                   /\ ~DeadPending("s1")'
     /\ Blow(2) => /\ players'["s1"].hp <= 0
                   /\ DeadPending("s1")'
                   /\ DiedOnceBy(events', "s1", "s2")]_vars

\* the third blow has just killed the warrior
C15_ThirdBlowKilled ==
  /\ op.name = "input" /\ op.s = "s2"
  /\ used = 3
  /\ Live("s1") /\ players["s1"].classType = "warrior"
  /\ players["s1"].hp = 0 - 1
  /\ DeadPending("s1")
  /\ DiedOnceBy(events, "s1", "s2")

\* the sample of the given index overlaps a margin-expanded obstacle
SampleBlocked(draw, i) == BlockedAt(DrawAt(draw, i).x, DrawAt(draw, i).y)
\* pt is what a search over the samples of draw has to return: the first
\* sample of the budget that overlaps no obstacle or, when every sample of the
\* budget overlaps one, the map centre
SpawnPoint(pt, draw) ==
  \/ \E i \in 0..(SPAWN_TRIES - 1) :
       /\ pt = DrawAt(draw, i)
       /\ ~SampleBlocked(draw, i)
       /\ \A j \in 0..(i - 1) : SampleBlocked(draw, j)
  \/ /\ pt = MapCentre
     /\ \A i \in 0..(SPAWN_TRIES - 1) : SampleBlocked(draw, i)
\* the spawn handler has just created the entity of s
Joined(s) == op'.name = "spawn" /\ op'.s = s /\ ~Live(s) /\ Live(s)'
Position(p) == [x |-> p.x, y |-> p.y]

\* C16: findSpawn returns the first of its (at most 100) samples whose box
\* overlaps no margin-expanded obstacle and, when all 100 samples overlap one,
\* the map centre, unchecked: every entity created by a spawn and every entity
\* put back by a respawn stands at that point of the samples drawn.
C16_FirstFreeSampleOrCentre ==
  /\ \A d \in MoveDraws \cup RespawnDraws : SpawnPoint(findSpawn(d), d)
  /\ [][/\ op'.name = "spawn" =>
             \A s \in Pair :
               Joined(s) => \E d \in MoveDraws : SpawnPoint(Position(players'[s]), d)
        /\ op'.name = "respawn" =>
             \A s \in Pair :
               (SameObject(s) /\ Respawned(s)') =>
                 \E d \in RespawnDraws : SpawnPoint(Position(players'[s]), d)]_vars

\* an entity has just been created at the second sample, the first one having
\* fallen on the house of the map centre
C16_SpawnedAtSecondSample ==
  \E s \in Sessions :
    /\ op.name = "spawn" /\ op.s = s
    /\ HasEvent(events, "init", s)
    /\ Live(s)
    /\ \E d \in MoveDraws :
         /\ SampleBlocked(d, 0) /\ ~SampleBlocked(d, 1)
         /\ Position(players[s]) = DrawAt(d, 1)
         /\ Position(players[s]) # DrawAt(d, 0)

\* the connection handler has just run for the socket s
Connected(s) == op'.name = "connection" /\ op'.s = s /\ conn[s] = "new"
AtCapacity == Cardinality(Registered) >= MAX_PLAYERS

\* C17: a connection that arrives while the registry holds MAX_PLAYERS
\* entities gets the full notice, that socket only, and is closed: it gets no
\* world info, no entity is ever created for it, and the registry, the
\* projectiles, the timers and the other sockets are left as they were. Below
\* the capacity the socket gets the world info and stays open.
C17_RejectedWhenFull ==
  [][\A s \in Sessions :
       /\ (Connected(s) /\ AtCapacity) =>
            /\ events' = << [type |-> "full", to |-> s] >>
            /\ conn' = [conn EXCEPT ![s] = "closed"]
            /\ players' = players /\ order' = order
            /\ projectiles' = projectiles /\ timers' = timers
       /\ (Connected(s) /\ ~AtCapacity) =>
            /\ events' = << [type |-> "world", to |-> s] >>
            /\ conn' = [conn EXCEPT ![s] = "open"]
       /\ conn[s] = "closed" => (conn'[s] = "closed" /\ ~Live(s)')]_vars

\* the seventh socket has just been turned away, six entities being registered
C17_SeventhTurnedAway ==
  /\ op.name = "connection"
  /\ conn[op.s] = "closed" /\ ~Live(op.s)
  /\ events = << [type |-> "full", to |-> op.s] >>
  /\ Cardinality(Registered) = MAX_PLAYERS
  /\ \A t \in Sessions \ {op.s} : conn[t] = "open" /\ Live(t)

\* C18: a tick is one pass that ends with the snapshot: every live projectile
\* is advanced exactly once in every tick (it is removed or is one step
\* further), nothing advances a projectile outside a tick, and every tick emits
\* exactly one snapshot, no other step emits one.
C18_OnePassPerTick ==
  [][/\ op'.name = "tick" =>
          /\ Len(EventsOf(events', "snapshot")) = 1
          /\ Len(projectiles') <= Len(projectiles)
          /\ \A j \in 1..Len(projectiles') :
               \E i \in 1..Len(projectiles) : projectiles'[j] = Moved(projectiles[i])
     /\ op'.name # "tick" =>
          /\ EventsOf(events', "snapshot") = << >>
          /\ op'.name # "input" => projectiles' = projectiles]_vars

\* C19: the snapshot of a tick is one message sent to all the sockets alike;
\* it has exactly one entry for every entity the registry holds when it is
\* built, under the entity's id and with the entity's state after the tick's
\* integration, one entry for every projectile of the list, in the order of the
\* list, and nothing else.
C19_SnapshotComplete ==
  [][op'.name = "tick" =>
       /\ Len(events') = 1
       /\ LET snap == events'[1]
          IN /\ snap.type = "snapshot" /\ snap.to = "all"
             /\ DOMAIN snap.players = Registered'
             /\ \A s \in DOMAIN snap.players :
                  /\ snap.players[s].x = players'[s].x /\ snap.players[s].y = players'[s].y
                  /\ snap.players[s].hp = players'[s].hp
                  /\ snap.players[s].maxHp = players'[s].maxHp
                  /\ snap.players[s].classType = players'[s].classType
                  /\ snap.players[s].facing = players'[s].facing
             /\ DOMAIN snap.projectiles = 1..Len(projectiles')
             /\ \A i \in DOMAIN snap.projectiles :
                  /\ 2 * Abs(MILLI * snap.projectiles[i].x - projectiles'[i].x) <= MILLI
                  /\ 2 * Abs(MILLI * snap.projectiles[i].y - projectiles'[i].y) <= MILLI
                  /\ snap.projectiles[i].type = projectiles'[i].type]_vars

\* a snapshot taken after an entity has left, with projectiles in flight: two
\* entities and the arrows, which have already advanced
C19_SnapshotAfterLeave ==
  /\ op.name = "tick"
  /\ conn["s3"] = "closed"
  /\ DOMAIN events[1].players = {"s1", "s2"}
  /\ Len(projectiles) > 0
  /\ projectiles[1].life < PROJ_LIFE
  /\ Len(events[1].projectiles) = Len(projectiles)

\* the state of an entity that the simulation owns
Owned(p) ==
  << p.x, p.y, p.hp, p.maxHp, p.damage, p.speed, p.xp, p.level, Cooldowns(p) >>

\* C20: entity and projectile state changes only inside a tick: a step that is
\* the handling of a spawn, input or disconnect event or the firing of a timer
\* callback leaves the position, hp, maxHp, stats, cooldowns and xp of every
\* entity and the projectile list as they were.
C20_MutatedOnlyInTick ==
  [][op'.name \notin {"tick", "projectiles", "time"} =>
       /\ projectiles' = projectiles
       /\ \A s \in Sessions :
            SameObject(s) => Owned(players'[s]) = Owned(players[s])]_vars

\* C21: an input or a disconnect of a session that has no entity in the
\* registry is a silent no-op: the registry, the projectiles and the timers are
\* left as they were and no notification is sent.
C21_NoEntityNoEffect ==
  [][\A s \in Sessions :
       (~Live(s) /\ op'.name \in {"input", "disconnect"} /\ op'.s = s) =>
          /\ events' = << >>
          /\ players' = players /\ order' = order
          /\ projectiles' = projectiles /\ timers' = timers]_vars

\* the playerLeft notifications for the id s among the notifications ev
LeftEvents(ev, s) == {i \in 1..Len(ev) : ev[i].type = "playerLeft" /\ ev[i].id = s}
Stale(s) == Live(s) /\ clock - players[s].lastSeen > IDLE_LIMIT

\* C22: a sweep removes exactly the entities whose last input is older than
\* the idle window, each with the effects of a disconnect (the entity leaves
\* the registry, one playerLeft for its id), and leaves the others as they
\* are; over the life of a session playerLeft is sent once for its id: only
\* by the step that takes its entity out of the registry.
C22_SweepActsAsDisconnect ==
  [][\A s \in Sessions :
       /\ op'.name = "sweep" =>
            /\ Stale(s) => (~Live(s)' /\ Cardinality(LeftEvents(events', s)) = 1)
            /\ (Live(s) /\ ~Stale(s)) => (players'[s] = players[s] /\ LeftEvents(events', s) = {})
       /\ LeftEvents(events', s) # {} =>
            /\ Live(s) /\ ~Live(s)'
            /\ Cardinality(LeftEvents(events', s)) = 1]_vars

\* the entities that the step takes from hp > 0 to hp <= 0 by a blow of s
KilledBy(s) ==
  {t \in Sessions \ {s} :
     /\ SameObject(t)
     /\ players[t].hp > 0 /\ players'[t].hp <= 0
     /\ \E i \in 1..Len(events') :
          events'[i].type = "died" /\ events'[i].to = t /\ events'[i].by = s}

\* C23: an entity's xp changes only by the reward of a death: in a step its xp
\* grows by XP_REWARD for every entity that the step takes from hp > 0 to
\* hp <= 0 by a blow of that entity, if the entity is alive (hp > 0), and it
\* does not change otherwise.
C23_RewardOnlyOnDeath ==
  [][\A s \in Sessions :
       SameObject(s) =>
         players'[s].xp =
           players[s].xp + (IF players[s].hp > 0
                              THEN XP_REWARD * Cardinality(KilledBy(s)) ELSE 0)]_vars

\* C24: a step that raises an entity's level raises its maxHp and its base
\* damage and leaves its hp at most at the new maxHp; a level never goes down.
C24_LevelUpRaisesStats ==
  [][\A s \in Sessions :
       SameObject(s) =>
         /\ players'[s].level >= players[s].level
         /\ players'[s].level > players[s].level =>
              /\ players'[s].maxHp > players[s].maxHp
              /\ players'[s].damage > players[s].damage
              /\ players'[s].hp <= players'[s].maxHp]_vars

\* the expiry times recorded on an entity
Effects(p) ==
  << p.status.shield, p.status.speedUntil, p.status.invisUntil, p.status.rageUntil,
     p.status.transformedUntil >>

\* C25: after a tick no entity has an effect recorded whose expiry the time of
\* the tick exceeds, and an entity without a speed-boost, rage or
\* transformation recorded has its base speed, base damage and base maxHp
\* (those of its class: the entity has killed nobody).
C25_ExpiredEffectsRemoved ==
  [][op'.name = "tick" =>
       \A s \in Sessions :
         Live(s)' =>
           LET p == players'[s]
           IN /\ \A i \in 1..Len(Effects(p)) : ~Expired(Effects(p)[i], clock')
              /\ p.status.speedUntil = 0 => p.speed = BASE_SPEED
              /\ (p.status.rageUntil = 0 /\ p.status.transformedUntil = 0)
                   => p.damage = CLASSES[p.classType].damage
              /\ p.status.transformedUntil = 0 => p.maxHp = CLASSES[p.classType].maxHp]_vars

\* the entity of s has just handled an input
Acted(s) == op'.name = "input" /\ op'.s = s /\ SameObject(s)
\* no hit and no death is notified to the entity that caused it
NoSelfHit(ev) ==
  \A i \in 1..Len(ev) :
    /\ ev[i].type = "hit" => ev[i].from # ev[i].to
    /\ ev[i].type = "died" => ev[i].by # ev[i].to

ArcClasses == {"ninja", "warrior", "mage", "cleric"}
ArcOf(p) ==
  CASE p.classType = "ninja"   -> [slot |-> "e", radius |-> 80 + p.level * 4, cone |-> "half"]
    [] p.classType = "warrior" -> [slot |-> "e", radius |-> 90 + p.level * 4, cone |-> "third"]
    [] p.classType = "mage"    -> [slot |-> "x", radius |-> 220 + p.level * 8, cone |-> "beam"]
    [] OTHER                   -> [slot |-> "x", radius |-> 200, cone |-> "beam"]
\* the shortest angular difference between the bearing of (dx, dy) and the
\* facing f is within the half angle of the cone: pi/2 ("half"), pi/3
\* ("third", tan = sqrt 3) or, strictly, 0.25 ("beam", tan = 0.25534)
WithinHalfAngle(f, dx, dy, cone) ==
  LET al == CASE f = "up" -> -dy [] f = "down" -> dy [] f = "left" -> -dx [] OTHER -> dx
      ac == IF f \in {"up", "down"} THEN Abs(dx) ELSE Abs(dy)
  IN CASE cone = "half"  -> al >= 0
       [] cone = "third" -> al >= 0 /\ ac * ac <= 3 * al * al
       [] OTHER          -> al > 0 /\ ac * 100000 < 25534 * al
\* the entity of s has just used its arc or beam, and no other slot
ArcUsed(s) ==
  /\ Acted(s)
  /\ players[s].classType \in ArcClasses
  /\ players'[s].facing \in {"up", "down", "left", "right"}
  /\ CDOf(players[s], ArcOf(players[s]).slot) = 0
  /\ CDOf(players'[s], ArcOf(players[s]).slot) = RechargeOf(ArcOf(players[s]).slot)
  /\ \A o \in {"attack", "q", "e", "x"} \ {ArcOf(players[s]).slot} :
       CDOf(players'[s], o) = CDOf(players[s], o)
InArc(s, t) ==
  LET p == players'[s]
      dx == players[t].x - p.x
      dy == players[t].y - p.y
  IN /\ t # s /\ Live(t)
     /\ dx * dx + dy * dy <= ArcOf(p).radius * ArcOf(p).radius
     /\ (dx # 0 \/ dy # 0)
     /\ WithinHalfAngle(p.facing, dx, dy, ArcOf(p).cone)

\* C27: a melee arc or a beam damages exactly the other entities within the
\* radius whose bearing from the actor is within the half angle of the actor's
\* facing, by the shortest angular difference, whatever the facing.
C27_ArcHitsWithinHalfAngle ==
  [][\A s \in Sessions :
       ArcUsed(s) =>
         \A t \in Sessions \ {s} :
           (Live(t) /\ (players[t].x # players'[s].x \/ players[t].y # players'[s].y)) =>
             (InArc(s, t) <=>
                \E i \in 1..Len(events') :
                  events'[i].type = "hit" /\ events'[i].to = t /\ events'[i].from = s)]_vars

\* C28: the class of every entity is one of the nine classes, whatever name
\* the spawn request carried, and so every honoured ability request runs one
\* defined behaviour: none ends in a call of something that does not exist.
C28_ClassIsOneOfNine ==
  /\ \A s \in Sessions : Live(s) => players[s].classType \in ClassNames
  /\ ~crashed

Facings == {"up", "down", "left", "right"}
\* the direction of the larger axis of a velocity, the horizontal one on a tie
Heading(vx, vy) ==
  IF Abs(vx) >= Abs(vy) THEN (IF vx > 0 THEN "right" ELSE "left")
  ELSE (IF vy > 0 THEN "down" ELSE "up")

\* C29: after an input the facing of the entity is up, down, left or right;
\* an input without movement leaves the facing as it was, and an input with
\* movement turns the entity to the direction of its larger axis, the
\* horizontal one on a tie.
C29_FacingFollowsMovement ==
  [][\A s \in Sessions :
       Acted(s) =>
         /\ players'[s].facing \in Facings
         /\ IF players'[s].vx = 0 /\ players'[s].vy = 0
            THEN players'[s].facing = players[s].facing
            ELSE players'[s].facing = Heading(players'[s].vx, players'[s].vy)]_vars

\* C30: after an input the velocity of the entity is its movement axes, each
\* clamped to [-1, 1] and the pair normalised when both are non-zero, times
\* its speed: the velocity is never longer than the speed.
C30_VelocityWithinSpeed ==
  [][\A s \in Sessions :
       Acted(s) =>
         /\ Abs(players'[s].vx) <= players'[s].speed
         /\ Abs(players'[s].vy) <= players'[s].speed
         /\ players'[s].vx * players'[s].vx + players'[s].vy * players'[s].vy
              <= players'[s].speed * players'[s].speed]_vars

\* the level of an entity is the one that its xp gives
LevelOfXp(p) == p.xp >= 0 /\ p.level = (p.xp \div XP_PER_LEVEL) + 1

\* C31: at all times the level of every entity is floor(xp / 20) + 1, and no
\* step lowers the xp or the level of an entity.
C31_LevelFollowsXp ==
  [][\A s \in Sessions :
       /\ Live(s) => LevelOfXp(players[s])
       /\ Live(s)' => LevelOfXp(players'[s])
       /\ SameObject(s) => /\ players'[s].xp >= players[s].xp
                           /\ players'[s].level >= players[s].level]_vars
\* an entity has reached the second level by two rewards
C31_SecondLevelReached ==
  \E s \in Sessions :
    Live(s) /\ players[s].xp = 2 * XP_REWARD /\ players[s].level = 2

\* C32: the registry never holds more than MAX_PLAYERS entities, whatever the
\* order of connections, spawn requests, disconnects and evictions, also when
\* several sockets connect while it is not full and spawn afterwards.
C32_RegistryWithinCapacity == Cardinality(Registered) <= MAX_PLAYERS

\* the entity for which the callback t was scheduled has left the registry
Gone(t) == ~(Live(t.id) /\ players[t.id].gen = t.gen)
\* the step runs the pending callback number i
Fires(i) ==
  /\ i \in 1..Len(timers)
  /\ op'.name = timers[i].kind /\ op'.s = timers[i].id
  /\ timers' = DropAt(timers, i)

\* C33: a callback that was scheduled for an entity which has since been
\* removed from the registry does nothing: it broadcasts no playerRespawn and
\* changes no entity of the registry, a new entity of the same id included.
C33_NoTimerActsOnRemoved ==
  [][\A i \in 1..Len(timers) :
       (Fires(i) /\ Gone(timers[i])) =>
         /\ players' = players
         /\ \A j \in 1..Len(events') : events'[j].type # "playerRespawn"]_vars

====
